---- MODULE Spec2Model ----
(***************************************************************************)
(* Lidar based grid mapping: the occupancy grid (src/src/occupancy.py) and *)
(* the trajectory loop that drives it (src/src/main.py,                    *)
(* src/src/map_operations.py).                                             *)
(*                                                                         *)
(* Number representation.  Poses and ranges are floats in the program.     *)
(* Here a length is an integer count of 1/Frac map units, an angle is an   *)
(* integer count of pi/HalfTurn radians, a cosine is an integer count of   *)
(* 1/CosScale, and a log-odds value is an integer count of 1/1000 nats.    *)
(* Rounding to a cell is computed on these exact fractions.                *)
(***************************************************************************)
EXTENDS Integers, Sequences, FiniteSets, TLC

VARIABLES
    config,        \* the configuration the grid was built with
    odometry,      \* argument of process_odometry_and_laser_data: the poses
    laser_arg,     \* argument of process_odometry_and_laser_data: the scans as passed
    laser,         \* the local name `laser` (rebound by np.clip)
    log_prob_map,  \* OccupancyGrid.log_prob_map
    i,             \* loop index of process_odometry_and_laser_data
    pc,            \* position in process_odometry_and_laser_data / update
    sweep,         \* update's last laser_sweep result (beam angles and hit points)
    occ,           \* update's local occ
    free,          \* update's local free
    map_before,    \* log_prob_map as it was when the running update was entered
    calls,         \* log of the calls made by the loop: update and plot_map
    line           \* frame of a bresenham_line call that is stepped on its own

vars == <<config, odometry, laser_arg, laser, log_prob_map, i, pc, sweep, occ,
          free, map_before, calls, line>>

(***************************************************************************)
(* Bounds of the model.                                                    *)
(***************************************************************************)
MaxSteps == 2      \* longest pose / scan sequence
MaxBeams == 3      \* most beams in one scan
MaxCoord == 3      \* bresenham_line is stepped for end points in -MaxCoord..MaxCoord

(***************************************************************************)
(* Number representation.                                                  *)
(***************************************************************************)
Frac == 4          \* lengths are counted in 1/Frac map units
HalfTurn == 12     \* angles are counted in pi/HalfTurn radians (15 degrees)
CosScale == 100000  \* cosines are counted in 1/CosScale

Abs(n) == IF n < 0 THEN -n ELSE n

\* abs as bresenham_line uses it
abs(n) == Abs(n)

(***************************************************************************)
(* OccupancyGrid.bresenham_line.  err is a float that starts at dx / 2.0;  *)
(* the frame keeps err2 = 2 * err, an integer, so that `err < 0` is        *)
(* `err2 < 0`.  `at` is the position: in the x-major loop, in the y-major  *)
(* loop, or returned.                                                      *)
(***************************************************************************)
\* LineStart with err started at dx (or dy) instead of half of it
LineStart_NoHalf(x0, y0, x1, y1) ==
    LET dx == abs(x1 - x0)
        dy == abs(y1 - y0)
    IN  [x0 |-> x0, y0 |-> y0, x1 |-> x1, y1 |-> y1, dx |-> dx, dy |-> dy,
         x |-> x0, y |-> y0,
         sx |-> IF x0 > x1 THEN -1 ELSE 1,
         sy |-> IF y0 > y1 THEN -1 ELSE 1,
         err2 |-> IF dx > dy THEN 2 * dx ELSE 2 * dy,
         points |-> << >>,
         at |-> IF dx > dy THEN "xloop" ELSE "yloop"]

LineStart(x0, y0, x1, y1) ==
    LET dx == abs(x1 - x0)
        dy == abs(y1 - y0)
    IN  [x0 |-> x0, y0 |-> y0, x1 |-> x1, y1 |-> y1, dx |-> dx, dy |-> dy,
         x |-> x0, y |-> y0,
         sx |-> IF x0 > x1 THEN -1 ELSE 1,
         sy |-> IF y0 > y1 THEN -1 ELSE 1,
         err2 |-> IF dx > dy THEN dx ELSE dy,
         points |-> << >>,
         at |-> IF dx > dy THEN "xloop" ELSE "yloop"]

\* the while condition of the loop the frame is in
LineLoop(s) ==
    \/ s.at = "xloop" /\ s.x # s.x1
    \/ s.at = "yloop" /\ s.y # s.y1

\* one iteration of the while loop the frame is in
LineBody(s) ==
    IF s.at = "xloop"
    THEN LET e == s.err2 - 2 * s.dy
         IN  [s EXCEPT !.points = Append(@, <<s.x, s.y>>),
                       !.y = IF e < 0 THEN s.y + s.sy ELSE s.y,
                       !.err2 = IF e < 0 THEN e + 2 * s.dx ELSE e,
                       !.x = s.x + s.sx]
    ELSE LET e == s.err2 - 2 * s.dx
         IN  [s EXCEPT !.points = Append(@, <<s.x, s.y>>),
                       !.x = IF e < 0 THEN s.x + s.sx ELSE s.x,
                       !.err2 = IF e < 0 THEN e + 2 * s.dy ELSE e,
                       !.y = s.y + s.sy]

\* LineReturn without the last point
LineReturn_NoEnd(s) == [s EXCEPT !.at = "done"]

\* the statements after the loop: the last point, and the return
LineReturn(s) == [s EXCEPT !.points = Append(@, <<s.x, s.y>>), !.at = "done"]

RECURSIVE LineRun(_)
LineRun(s) == IF LineLoop(s) THEN LineRun(LineBody(s)) ELSE LineReturn(s)

bresenham_line(x0, y0, x1, y1) == LineRun(LineStart(x0, y0, x1, y1)).points

(***************************************************************************)
(* Numbers.                                                                *)
(***************************************************************************)
\* np.round of the fraction num / den (den > 0): the nearest integer, a tie
\* going to the even one
np_round(num, den) ==
    LET q == (2 * num + den) \div (2 * den)
        tie == (2 * num + den) % (2 * den) = 0
    IN  IF tie /\ q % 2 # 0 THEN q - 1 ELSE q

\* np.cos and np.sin of an angle counted in pi/HalfTurn, in 1/CosScale
CosTab == <<100000, 96593, 86603, 70711, 50000, 25882, 0>>

np_cos(a) ==
    LET m == a % (2 * HalfTurn)
        r == IF m > HalfTurn THEN 2 * HalfTurn - m ELSE m
    IN  IF 2 * r <= HalfTurn THEN CosTab[r + 1] ELSE -CosTab[HalfTurn - r + 1]

np_sin(a) == np_cos(a - HalfTurn \div 2)

\* np.log of the ratio a / b of two probabilities given in percent, in 1/1000 nats
np_log(a, b) ==
    CASE a = b -> 0
      [] a = 9 * b -> 2197
      [] 9 * a = b -> -2197
      [] 3 * a = 7 * b -> 847
      [] 7 * a = 3 * b -> -847

\* np_clip that clamps from above only
np_clip_upper(v, lo, hi) == IF v > hi THEN hi ELSE v

\* np.clip on one element
np_clip(v, lo, hi) ==
    LET up == IF v < lo THEN lo ELSE v
    IN  IF up > hi THEN hi ELSE up

\* np_linspace whose single sample is the middle of the interval
np_linspace_mid(start, stop, num) ==
    LET div == num - 1
        delta == stop - start
        step == IF div > 0 THEN delta \div div ELSE delta
    IN  [k \in 1..num |->
            IF num = 1 THEN (start + stop) \div 2
            ELSE IF k = num THEN stop ELSE start + (k - 1) * step]

\* np.linspace(start, stop, num): a step of (stop - start) / (num - 1), the
\* last sample set to stop; with num = 1 the only sample is start
np_linspace(start, stop, num) ==
    LET div == num - 1
        delta == stop - start
        step == IF div > 0 THEN delta \div div ELSE delta
    IN  [k \in 1..num |-> IF num > 1 /\ k = num THEN stop ELSE start + (k - 1) * step]

(***************************************************************************)
(* OccupancyGrid.                                                          *)
(***************************************************************************)
\* the shape of log_prob_map
Shape(map_size, cfg) ==
    <<map_size[1] * cfg.resolution + 1, map_size[2] * cfg.resolution + 1>>

Cells(shape) == (0..(shape[1] - 1)) \X (0..(shape[2] - 1))

\* __init__: the zero array
OccupancyGrid(map_size, cfg) == [c \in Cells(Shape(map_size, cfg)) |-> 0]

add_prob(cfg, occupied) ==
    LET A == cfg.prob_occ
        B == 100 - cfg.prob_occ
    IN  IF ~occupied THEN np_log(A, B) ELSE np_log(B, A)

\* the beam angles xi[2] + theta, and the two coordinate arrays that are
\* returned, in 1/(Frac * CosScale)
laser_sweep(xi, zi) ==
    LET theta == np_linspace(-(HalfTurn \div 2), HalfTurn \div 2, Len(zi))
    IN  [ang |-> [k \in 1..Len(zi) |-> xi[3] + theta[k]],
         x |-> [k \in 1..Len(zi) |-> xi[1] * CosScale + zi[k] * np_cos(xi[3] + theta[k])],
         y |-> [k \in 1..Len(zi) |-> xi[2] * CosScale + zi[k] * np_sin(xi[3] + theta[k])]]

\* free = np.hstack((free, bresenham_line(...).T)) for beams k..Len(cells)
RECURSIVE HStackLines(_, _, _, _)
HStackLines(acc, cell, cells, k) ==
    IF k > Len(cells) THEN acc
    ELSE HStackLines(acc \o bresenham_line(cell[1], cell[2], cells[k][1], cells[k][2]),
                     cell, cells, k + 1)

\* check_cells whose free list starts with the robot cell once
check_cells_once(cfg, xi, zi) ==
    LET sw == laser_sweep(xi, zi)
        o == [k \in 1..Len(zi) |->
                <<np_round(sw.x[k] * cfg.resolution, Frac * CosScale),
                  np_round(sw.y[k] * cfg.resolution, Frac * CosScale)>>]
        cell == <<np_round(xi[1] * cfg.resolution, Frac),
                  np_round(xi[2] * cfg.resolution, Frac)>>
    IN  [sweep |-> sw, occ |-> o, free |-> HStackLines(<<cell>>, cell, o, 1)]

\* occ and free are 2 x n arrays in the code; here sequences of n cells
check_cells(cfg, xi, zi) ==
    LET sw == laser_sweep(xi, zi)
        o == [k \in 1..Len(zi) |->
                <<np_round(sw.x[k] * cfg.resolution, Frac * CosScale),
                  np_round(sw.y[k] * cfg.resolution, Frac * CosScale)>>]
        cell == <<np_round(xi[1] * cfg.resolution, Frac),
                  np_round(xi[2] * cfg.resolution, Frac)>>
    IN  [sweep |-> sw, occ |-> o, free |-> HStackLines(<<cell, cell>>, cell, o, 1)]

\* numpy's index check along one axis: a negative index counts from the end
InAxis(idx, dim) == -dim <= idx /\ idx < dim
Wrap(idx, dim) == IF idx < 0 THEN idx + dim ELSE idx

\* AddAt that assigns the increment instead of adding it
AddAt_Assign(m, shape, c, inc) ==
    LET w == <<Wrap(c[1], shape[1]), Wrap(c[2], shape[2])>>
    IN  [m EXCEPT ![w] = inc]

\* log_prob_map[c[0], c[1]] += inc
AddAt(m, shape, c, inc) ==
    LET w == <<Wrap(c[1], shape[1]), Wrap(c[2], shape[2])>>
    IN  [m EXCEPT ![w] = @ + inc]

\* one of update's two for loops, from column k on: the array when the loop
\* ends, and whether it ran to its end (an IndexError leaves it at once)
RECURSIVE AddLoop(_, _, _, _, _)
AddLoop(m, shape, cells, inc, k) ==
    IF k > Len(cells) THEN [map |-> m, ok |-> TRUE]
    ELSE IF ~(InAxis(cells[k][1], shape[1]) /\ InAxis(cells[k][2], shape[2]))
         THEN [map |-> m, ok |-> FALSE]
         ELSE AddLoop(AddAt(m, shape, cells[k], inc), shape, cells, inc, k + 1)

\* laser = np.clip(laser, 0, laser_range), row by row
ClipRow(row, cfg) == [k \in 1..Len(row) |-> np_clip(row[k], 0, cfg.max_range)]

(***************************************************************************)
(* Inputs.                                                                 *)
(***************************************************************************)
ConfigA == [map_size |-> <<10, 10>>, resolution |-> 1, prob_occ |-> 90,
            max_range |-> 5 * Frac]
ConfigB == [map_size |-> <<3, 2>>, resolution |-> 2, prob_occ |-> 70,
            max_range |-> 2 * Frac]
Configs == {ConfigA, ConfigB}

\* poses <<x, y, theta>>: one in the middle of the map, one off the cell
\* centres with a slanted heading, and one at the edge of the map (ConfigA:
\* inside and facing out; ConfigB: one cell outside and facing along the edge)
Poses(cfg) ==
    IF cfg = ConfigA
    THEN {<<5 * Frac, 5 * Frac, 0>>, <<5 * Frac + 1, 5 * Frac - 1, 2>>,
          <<8 * Frac, 1 * Frac, HalfTurn \div 2>>}
    ELSE {<<Frac + 2, Frac, 3>>, <<Frac + 1, Frac - 1, -3>>,
          <<3 * Frac + 2, Frac, -(HalfTurn \div 2)>>}

\* numbers of beams whose angles are whole counts of pi/HalfTurn
BeamCounts == {n \in 1..MaxBeams : n = 1 \/ HalfTurn % (n - 1) = 0}

\* scans of n raw readings: all at max_range, all beyond it, and one mixing
\* negative readings with readings inside the range
Rows(cfg, n) ==
    {[k \in 1..n |-> cfg.max_range],
     [k \in 1..n |-> cfg.max_range + 2 * Frac],
     [k \in 1..n |-> IF k % 2 = 1 THEN -Frac ELSE cfg.max_range - 2]}

SeqsUpTo(S, n) == UNION {[1..k -> S] : k \in 0..n}

\* The program computes a hit point in floats.  Where its exact value lies
\* half way between two cells, the float lies on either side of it, and
\* np_round of the exact value is not the program's cell.  The model draws
\* the scans that have no such hit point (a reading of 0 adds an exact 0).
OffTie(num, den) == (2 * num + den) % (2 * den) # 0

Exact(cfg, xi, zi) ==
    LET sw == laser_sweep(xi, zi)
    IN  \A k \in 1..Len(zi) :
            zi[k] # 0 => /\ OffTie(sw.x[k] * cfg.resolution, Frac * CosScale)
                         /\ OffTie(sw.y[k] * cfg.resolution, Frac * CosScale)

(***************************************************************************)
(* Values of the variables of the part that is not running.                *)
(***************************************************************************)
NoLine == [at |-> "none"]
NoSweep == [ang |-> << >>, x |-> << >>, y |-> << >>]

(***************************************************************************)
(* process_odometry_and_laser_data(config, odometry, laser, map), called   *)
(* with a freshly constructed map.                                         *)
(***************************************************************************)
Init ==
    /\ config \in Configs
    /\ odometry \in SeqsUpTo(Poses(config), MaxSteps)
    /\ \E n \in BeamCounts : laser_arg \in SeqsUpTo(Rows(config, n), MaxSteps)
    /\ \A r \in 1..Len(odometry) :
           r <= Len(laser_arg) =>
               Exact(config, odometry[r], ClipRow(laser_arg[r], config))
    /\ laser = laser_arg
    /\ log_prob_map = OccupancyGrid(config.map_size, config)
    /\ i = 0
    /\ pc = "clip"
    /\ sweep = NoSweep
    /\ occ = << >>
    /\ free = << >>
    /\ map_before = log_prob_map
    /\ calls = << >>
    /\ line = NoLine

\* laser = np.clip(laser, 0, laser_range)
Clip ==
    /\ pc = "clip"
    /\ laser' = [r \in 1..Len(laser) |-> ClipRow(laser[r], config)]
    /\ pc' = "loop"
    /\ UNCHANGED <<config, odometry, laser_arg, log_prob_map, i, sweep, occ, free,
                   map_before, calls, line>>

\* the head of the for loop and the call map.update(odometry[i], laser[i]);
\* laser[i] raises IndexError when laser is the shorter array
LoopHead ==
    /\ pc = "loop"
    /\ IF i >= Len(odometry)
       THEN pc' = "done" /\ UNCHANGED <<calls, map_before>>
       ELSE IF i >= Len(laser)
            THEN pc' = "error" /\ UNCHANGED <<calls, map_before>>
            ELSE /\ pc' = "check_cells"
                 /\ calls' = Append(calls, [op |-> "update", i |-> i,
                                            xi |-> odometry[i + 1], zi |-> laser[i + 1]])
                 /\ map_before' = log_prob_map
    /\ UNCHANGED <<config, odometry, laser_arg, laser, log_prob_map, i, sweep, occ,
                   free, line>>

\* update: occ, free = self.check_cells(xi, zi)
CheckCells ==
    /\ pc = "check_cells"
    /\ LET r == check_cells(config, odometry[i + 1], laser[i + 1])
       IN  sweep' = r.sweep /\ occ' = r.occ /\ free' = r.free
    /\ pc' = "occ_loop"
    /\ UNCHANGED <<config, odometry, laser_arg, laser, log_prob_map, i, map_before,
                   calls, line>>

\* update: the loop over the columns of occ
OccLoop ==
    /\ pc = "occ_loop"
    /\ LET r == AddLoop(log_prob_map, Shape(config.map_size, config), occ,
                        add_prob(config, TRUE), 1)
       IN  /\ log_prob_map' = r.map
           /\ pc' = IF r.ok THEN "free_loop" ELSE "error"
    /\ UNCHANGED <<config, odometry, laser_arg, laser, i, sweep, occ, free,
                   map_before, calls, line>>

\* update: the loop over the columns of free
FreeLoop ==
    /\ pc = "free_loop"
    /\ LET r == AddLoop(log_prob_map, Shape(config.map_size, config), free,
                        add_prob(config, FALSE), 1)
       IN  /\ log_prob_map' = r.map
           /\ pc' = IF r.ok THEN "plot" ELSE "error"
    /\ UNCHANGED <<config, odometry, laser_arg, laser, i, sweep, occ, free,
                   map_before, calls, line>>

\* Plot followed by a loop step that skips an index
Plot_Skip ==
    /\ pc = "plot"
    /\ calls' = Append(calls, [op |-> "plot", i |-> i,
                               xi |-> odometry[i + 1], zi |-> laser[i + 1]])
    /\ i' = i + 2
    /\ pc' = "loop"
    /\ UNCHANGED <<config, odometry, laser_arg, laser, log_prob_map, sweep, occ,
                   free, map_before, line>>

\* plot_map(config, odometry, laser, map, i), which reads the map through
\* fetch_prob_map, and the step of the for loop
Plot ==
    /\ pc = "plot"
    /\ calls' = Append(calls, [op |-> "plot", i |-> i,
                               xi |-> odometry[i + 1], zi |-> laser[i + 1]])
    /\ i' = i + 1
    /\ pc' = "loop"
    /\ UNCHANGED <<config, odometry, laser_arg, laser, log_prob_map, sweep, occ,
                   free, map_before, line>>

Next == Clip \/ LoopHead \/ CheckCells \/ OccLoop \/ FreeLoop \/ Plot

Spec == Init /\ [][Next]_vars

(***************************************************************************)
(* bresenham_line stepped one loop iteration at a time, for every pair of  *)
(* end points in the box.                                                  *)
(***************************************************************************)
Coord == (-MaxCoord)..MaxCoord

LineInit ==
    /\ config = ConfigA
    /\ odometry = << >>
    /\ laser_arg = << >>
    /\ laser = << >>
    /\ log_prob_map = OccupancyGrid(config.map_size, config)
    /\ i = 0
    /\ pc = "idle"
    /\ sweep = NoSweep
    /\ occ = << >>
    /\ free = << >>
    /\ map_before = log_prob_map
    /\ calls = << >>
    /\ \E x0 \in Coord, y0 \in Coord, x1 \in Coord, y1 \in Coord :
           line = LineStart(x0, y0, x1, y1)

LineIterate ==
    /\ line.at # "done"
    /\ LineLoop(line)
    /\ line' = LineBody(line)
    /\ UNCHANGED <<config, odometry, laser_arg, laser, log_prob_map, i, pc,
                   sweep, occ, free, map_before, calls>>

LineExit ==
    /\ line.at # "done"
    /\ ~LineLoop(line)
    /\ line' = LineReturn(line)
    /\ UNCHANGED <<config, odometry, laser_arg, laser, log_prob_map, i, pc,
                   sweep, occ, free, map_before, calls>>

LineNext == LineIterate \/ LineExit

LineSpec == LineInit /\ [][LineNext]_vars

(***************************************************************************)
(* Definitions the properties below share.                                 *)
(***************************************************************************)
ShapeNow == Shape(config.map_size, config)
Zero == OccupancyGrid(config.map_size, config)
Max2(a, b) == IF a > b THEN a ELSE b

\* update(xi, zi) run from the array m to its end or to its IndexError
update(m, cfg, xi, zi) ==
    LET cc == check_cells(cfg, xi, zi)
        shape == Shape(cfg.map_size, cfg)
        a == AddLoop(m, shape, cc.occ, add_prob(cfg, TRUE), 1)
    IN  IF a.ok THEN AddLoop(a.map, shape, cc.free, add_prob(cfg, FALSE), 1) ELSE a

\* the cell lies in [0, width] x [0, height]
InGrid(c) == c \in Cells(ShapeNow)
AllInGrid(cells) == \A k \in 1..Len(cells) : InGrid(cells[k])

\* how often the cell occurs in the list
Count(cells, c) == Cardinality({k \in 1..Len(cells) : cells[k] = c})

\* update has been called and has not returned
InUpdate == calls # << >> /\ calls[Len(calls)].op = "update"
\* ... and check_cells has returned, so occ and free are those of this update
CellsKnown == InUpdate /\ pc \in {"occ_loop", "free_loop", "plot", "error"}
\* ... and both loops ran to their end
UpdateDone == InUpdate /\ pc = "plot"

RobotCell(xi) == <<np_round(xi[1] * config.resolution, Frac),
                   np_round(xi[2] * config.resolution, Frac)>>

\* the scan the loop passes to update in step r (1-based)
Clipped(r) == ClipRow(laser_arg[r], config)

(***************************************************************************)
(* C1.  As claimed: on a fresh grid of map size (10,10), resolution 1,     *)
(* base probability 0.9, update(pose=(5,5,0), ranges=[5]) leaves (10,5)    *)
(* with one occupied increment, the cells (5,5)..(9,5) with one free       *)
(* increment each, and every other cell at 0.                              *)
(***************************************************************************)
C1_Scenario ==
    /\ config = ConfigA
    /\ Len(odometry) >= 1 /\ odometry[1] = <<5 * Frac, 5 * Frac, 0>>
    /\ Len(laser_arg) >= 1 /\ laser_arg[1] = <<5 * Frac>>
    /\ i = 0

C2_AsClaimed ==
    (CellsKnown /\ ~(AllInGrid(occ) /\ AllInGrid(free))) =>
        (pc # "plot" /\ log_prob_map = map_before)

(***************************************************************************)
(* C4.  Once i updates have returned, all of them with every cell in the   *)
(* grid, the array is the cell by cell sum of the arrays each of the i     *)
(* updates leaves when applied alone to a zero array; two equal updates    *)
(* leave twice what one leaves.                                            *)
(***************************************************************************)
Alone(r) == update(Zero, config, odometry[r], Clipped(r)).map

\* the cell by cell sum of the arrays of the first r updates, each applied alone
RECURSIVE SumAlone(_)
SumAlone(r) ==
    IF r = 0 THEN Zero
    ELSE LET before == SumAlone(r - 1)
             a == Alone(r)
         IN  [c \in Cells(ShapeNow) |-> before[c] + a[c]]

StepInBounds(r) ==
    LET cc == check_cells(config, odometry[r], Clipped(r))
    IN  AllInGrid(cc.occ) /\ AllInGrid(cc.free)

C4_Additive ==
    (pc \in {"loop", "done"} /\ \A r \in 1..i : StepInBounds(r)) =>
        /\ log_prob_map = SumAlone(i)
        /\ (i = 2 /\ odometry[1] = odometry[2] /\ Clipped(1) = Clipped(2)) =>
               LET a == Alone(1)
               IN  log_prob_map = [c \in Cells(ShapeNow) |-> 2 * a[c]]

C4_Witness ==
    /\ pc = "done" /\ i = 2
    /\ StepInBounds(1) /\ StepInBounds(2)
    /\ odometry[1] = odometry[2] /\ Clipped(1) = Clipped(2)
    /\ LET a == Alone(1)
       IN  \E c \in Cells(ShapeNow) : a[c] # 0 /\ log_prob_map[c] = 2 * a[c]

(***************************************************************************)
(* C5.  The scans are clamped to [0, max_range] element by element before  *)
(* the first update: a reading above max_range becomes max_range, one      *)
(* below 0 becomes 0, any other (max_range itself included) is kept; and   *)
(* every scan handed to update is the clamped one.                         *)
(***************************************************************************)
Clamped(v) ==
    IF v > config.max_range THEN config.max_range ELSE IF v < 0 THEN 0 ELSE v

C5_Clamped ==
    /\ pc = "clip" => calls = << >>
    /\ pc # "clip" =>
           /\ Len(laser) = Len(laser_arg)
           /\ \A r \in 1..Len(laser) :
                  /\ Len(laser[r]) = Len(laser_arg[r])
                  /\ \A k \in 1..Len(laser[r]) : laser[r][k] = Clamped(laser_arg[r][k])
    /\ \A j \in 1..Len(calls) :
           calls[j].op = "update" =>
               /\ Len(calls[j].zi) = Len(laser_arg[calls[j].i + 1])
               /\ \A k \in 1..Len(calls[j].zi) :
                      /\ calls[j].zi[k] >= 0 /\ calls[j].zi[k] <= config.max_range
                      /\ calls[j].zi[k] = Clamped(laser_arg[calls[j].i + 1][k])

C5_Witness ==
    /\ calls # << >>
    /\ \E k \in 1..Len(laser_arg[1]) : laser_arg[1][k] > config.max_range
    /\ \E r \in 1..Len(laser_arg), k \in 1..Len(laser_arg[1]) :
           laser_arg[r][k] = config.max_range

(***************************************************************************)
(* C7.  As claimed: when the pose sequence and the scan sequence differ in *)
(* length, processing fails before any update is applied, so the array is  *)
(* all zero then and stays so.                                             *)
(***************************************************************************)
C7_AsClaimed ==
    Len(odometry) # Len(laser_arg) => log_prob_map = Zero

(***************************************************************************)
(* C3.  bresenham_line(x0,y0,x1,y1) returns, after at most                 *)
(* max(|x1-x0|,|y1-y0|) loop iterations, a sequence that starts at         *)
(* (x0,y0), ends at (x1,y1), moves between consecutive elements to a       *)
(* different cell among the 8 neighbours, and so has                       *)
(* max(|x1-x0|,|y1-y0|)+1 cells; for equal end points it is that one cell. *)
(***************************************************************************)
Span(s) == Max2(Abs(s.x1 - s.x0), Abs(s.y1 - s.y0))

C3_Line ==
    line # NoLine =>
        /\ Len(line.points) <= Span(line) + 1
        /\ line.at # "done" => ENABLED LineNext
        /\ line.at = "done" =>
               /\ Len(line.points) = Span(line) + 1
               /\ line.points[1] = <<line.x0, line.y0>>
               /\ line.points[Len(line.points)] = <<line.x1, line.y1>>
               /\ \A k \in 1..(Len(line.points) - 1) :
                      /\ line.points[k] # line.points[k + 1]
                      /\ Abs(line.points[k + 1][1] - line.points[k][1]) <= 1
                      /\ Abs(line.points[k + 1][2] - line.points[k][2]) <= 1
               /\ (line.x0 = line.x1 /\ line.y0 = line.y1) =>
                      line.points = <<<<line.x0, line.y0>>>>

C3_Witness ==
    /\ line # NoLine /\ line.at = "done"
    /\ Abs(line.x1 - line.x0) = 2 /\ Abs(line.y1 - line.y0) = 5
    /\ line.x0 > line.x1

(***************************************************************************)
(* C6.  For pose and scan sequences of one length n the loop calls         *)
(* update(odometry[i], laser[i]) and then plot_map(.., i) for i = 0, 1, .. *)
(* in this order and nothing else: the log of its calls is at every moment *)
(* a prefix of update 0, plot 0, update 1, plot 1, ..; when the loop is    *)
(* done the log is the whole of the 2n calls, and it stops short of that   *)
(* only when an update has raised.  The loop terminates: i never goes      *)
(* back, and every step lowers the count of statements still to run.       *)
(***************************************************************************)
Expected(j) ==
    [op |-> IF j % 2 = 1 THEN "update" ELSE "plot",
     i |-> (j - 1) \div 2,
     xi |-> odometry[(j - 1) \div 2 + 1],
     zi |-> Clipped((j - 1) \div 2 + 1)]

C6_Log ==
    Len(odometry) = Len(laser_arg) =>
        /\ Len(calls) <= 2 * Len(odometry)
        /\ \A j \in 1..Len(calls) : calls[j] = Expected(j)
        /\ pc \in {"loop", "done"} => Len(calls) = 2 * i
        /\ pc = "done" => Len(calls) = 2 * Len(odometry)
        /\ pc = "error" => InUpdate

\* the statements the loop still has to run, at most: a natural number
Remaining ==
    IF pc \in {"done", "error"} THEN 0
    ELSE 5 * (Len(odometry) - i)
         + CASE pc = "clip" -> 6
             [] pc = "loop" -> 5
             [] pc = "check_cells" -> 4
             [] pc = "occ_loop" -> 3
             [] pc = "free_loop" -> 2
             [] pc = "plot" -> 1

C6_InOrder ==
    /\ [](C6_Log /\ i <= Len(odometry) /\ Remaining >= 0)
    /\ [][Remaining' < Remaining /\ i' >= i]_vars

C6_Witness ==
    /\ Len(odometry) = 2 /\ Len(laser_arg) = 2
    /\ pc = "done" /\ Len(calls) = 4
    /\ odometry[1] # odometry[2]

(***************************************************************************)
(* C8.  As claimed: beam k of N (k = 0..N-1) has the angle                 *)
(* theta - pi/2 + k*pi/(N-1) when N > 1, and the angle theta when N = 1;   *)
(* its hit point is (x + r*cos(angle), y + r*sin(angle)).                  *)
(***************************************************************************)
SweepKnown == CellsKnown

\* 2(N-1) * (angle of beam k - theta) = -(N-1)*pi + 2(k-1)*pi, for N > 1
AngleSpread(xi, n) ==
    \A k \in 1..n :
        2 * (n - 1) * (sweep.ang[k] - xi[3]) = (2 * (k - 1) - (n - 1)) * HalfTurn

HitAt(xi, zi, k, ang) ==
    /\ sweep.x[k] = xi[1] * CosScale + zi[k] * np_cos(ang)
    /\ sweep.y[k] = xi[2] * CosScale + zi[k] * np_sin(ang)

C9_AsClaimed ==
    (UpdateDone /\ AllInGrid(occ) /\ AllInGrid(free)) =>
        \A k \in 1..Len(occ) :
            (Count(free, occ[k]) > 0 /\ occ[k] # RobotCell(odometry[i + 1])) =>
                (log_prob_map[occ[k]] - map_before[occ[k]]) * add_prob(config, TRUE) > 0

(***************************************************************************)
(* C10.  After an update that has returned and whose cells all lie in the  *)
(* grid: occ holds the N rounded hit cells; free holds the robot cell      *)
(* twice and then, beam by beam, the rasterised line from the robot cell   *)
(* to the beam's hit cell, both ends included; and every cell of the array *)
(* has changed by (its occurrences in free) * add_prob(False) + (its       *)
(* occurrences in occ) * add_prob(True).                                   *)
(***************************************************************************)
SegLen(cell, k) ==
    Max2(Abs(occ[k][1] - cell[1]), Abs(occ[k][2] - cell[2])) + 1

RECURSIVE SegStart(_, _)
SegStart(cell, k) == IF k = 1 THEN 3 ELSE SegStart(cell, k - 1) + SegLen(cell, k - 1)

C10_Accumulate ==
    (UpdateDone /\ AllInGrid(occ) /\ AllInGrid(free)) =>
        LET xi == odometry[i + 1]
            zi == laser[i + 1]
            n == Len(zi)
            cell == RobotCell(xi)
        IN  /\ Len(occ) = n
            /\ \A k \in 1..n :
                   occ[k] = <<np_round(sweep.x[k] * config.resolution, Frac * CosScale),
                              np_round(sweep.y[k] * config.resolution, Frac * CosScale)>>
            /\ Len(free) = SegStart(cell, n) + SegLen(cell, n) - 1
            /\ free[1] = cell /\ free[2] = cell
            /\ \A k \in 1..n :
                   LET a == SegStart(cell, k)
                       b == a + SegLen(cell, k) - 1
                   IN  /\ free[a] = cell
                       /\ free[b] = occ[k]
                       /\ SubSeq(free, a, b) =
                              bresenham_line(cell[1], cell[2], occ[k][1], occ[k][2])
            /\ \A c \in Cells(ShapeNow) :
                   log_prob_map[c] - map_before[c] =
                       Count(free, c) * add_prob(config, FALSE)
                       + Count(occ, c) * add_prob(config, TRUE)

C10_Witness ==
    /\ UpdateDone /\ AllInGrid(occ) /\ AllInGrid(free)
    /\ Len(occ) = 3 /\ i = 1
    /\ \E c \in Cells(ShapeNow) : Count(occ, c) = 2 /\ Count(free, c) = 5
    /\ \E c \in Cells(ShapeNow) : Count(occ, c) = 1 /\ Count(free, c) = 1
                                  /\ map_before[c] # 0
====
